---- MODULE Spec2Model ----
(***************************************************************************)
(* Model of src/server.ts: the Express application with the shared-secret  *)
(* gate, the POST /tts and POST /explain vendor proxies, the cache-control *)
(* middleware, express.static and the SPA fallback route.                  *)
(*                                                                         *)
(* Strings the code inspects character by character (text, format, path)   *)
(* are sequences of one-character strings.  An optional JavaScript value   *)
(* is a sequence of length 0 (undefined) or 1 (the value).  A request is   *)
(* taken up where express.json has parsed its body into an object.         *)
(***************************************************************************)
EXTENDS Naturals, Sequences, FiniteSets

\* ---------------------------------------------------------------------
\* Bounds of the model
\* ---------------------------------------------------------------------
\* seconds that pass in one step of a request's clock
TickS == 30
\* a request's clock stops advancing at this many seconds
MaxElapsedS == 30

\* the request contexts: two, so that one request can overlap another
Reqs == {1, 2}

\* ---------------------------------------------------------------------
\* JavaScript values
\* ---------------------------------------------------------------------
None == <<>>
Some(v) == <<v>>
IsNone(o) == Len(o) = 0
Val(o) == o[1]

StartsWith(s, p) == Len(s) >= Len(p) /\ SubSeq(s, 1, Len(p)) = p
EndsWith(s, p) == Len(s) >= Len(p) /\ SubSeq(s, Len(s) - Len(p) + 1, Len(s)) = p

WhiteSpace == {" ", "\t", "\n"}

RECURSIVE TrimStart(_)
TrimStart(s) == IF Len(s) > 0 /\ s[1] \in WhiteSpace THEN TrimStart(Tail(s)) ELSE s

RECURSIVE TrimEnd(_)
TrimEnd(s) ==
  IF Len(s) > 0 /\ s[Len(s)] \in WhiteSpace THEN TrimEnd(SubSeq(s, 1, Len(s) - 1)) ELSE s

\* String.prototype.trim
Trim(s) == TrimEnd(TrimStart(s))

\* `!text || !text.trim()` for text of type string | undefined
IsBlankTextNoTrim(text) == IsNone(text) \/ Len(Val(text)) = 0
IsBlankText(text) == IsNone(text) \/ Len(Val(text)) = 0 \/ Len(Trim(Val(text))) = 0

\* ---------------------------------------------------------------------
\* Program constants
\* ---------------------------------------------------------------------
\* the delay of the abort timer, 25_000 ms, in seconds
TimeoutS == 25
DefaultFormat == <<"w","a","v","_","2","2","0","5","0">>
WavPrefix == <<"w","a","v","_">>
FallbackExplanation == "No explanation generated"

NoCachePolicy == "no-cache, must-revalidate, max-age=0"
HourPolicy == "public, max-age=3600, must-revalidate"
YearPolicy == "public, max-age=31536000, immutable"

\* ---------------------------------------------------------------------
\* State
\* ---------------------------------------------------------------------
VARIABLES
  AUTH_TOKEN,   \* const AUTH_TOKEN, read once at start
  env,          \* process.env: the three vendor credentials
  pc,           \* per request: where its handler is suspended
  req,          \* per request: what the caller sent
  calls,        \* per request: the outbound vendor calls started
  timer,        \* per request: the setTimeout handle of the abort timer
  elapsed,      \* per request: seconds since its vendor call started
  vresp,        \* per request: what the vendor has delivered so far
  resp          \* per request: the responses sent to the caller

vars == <<AUTH_TOKEN, env, pc, req, calls, timer, elapsed, vresp, resp>>

\* ---------------------------------------------------------------------
\* Requests, vendor calls and responses
\* ---------------------------------------------------------------------
PathTts == <<"/","t","t","s">>
PathExplain == <<"/","e","x","p","l","a","i","n">>

NoReq ==
  [method |-> "", path |-> <<>>, token |-> None, text |-> None, settings |-> None,
   format |-> None, imageBase64 |-> None, mimeType |-> None]

NoVendorResp == [status |-> 0, body |-> None]

\* `x` is falsy: undefined or the empty string
Falsy(o) == IsNone(o) \/ Val(o) = ""

\* `a ?? b`
Nullish(o, d) == IF IsNone(o) THEN d ELSE Val(o)

\* response.ok
Ok(status) == status >= 200 /\ status <= 299

\* res.status(s).json({error, detail})
JsonResp(status, error, detail) ==
  [status |-> status, kind |-> "json", error |-> error, detail |-> detail,
   explanation |-> None, contentType |-> "application/json", disposition |-> "",
   xAudioFormat |-> None, cacheControl |-> "", audio |-> None, file |-> ""]

\* err?.message || String(err)
ErrDetail(err) == IF err.message # "" THEN err.message ELSE err.name

AbortError == [name |-> "AbortError", message |-> "This operation was aborted"]
NetworkError == [name |-> "TypeError", message |-> "fetch failed"]
BodyError == [name |-> "TypeError", message |-> "terminated"]
SyntaxError == [name |-> "SyntaxError", message |-> "Unexpected end of JSON input"]

\* ---------------------------------------------------------------------
\* Auth gate
\* ---------------------------------------------------------------------
\* a faulty variant: a request without the header is let through
RequireAuthSkipsMissing(token) == AUTH_TOKEN = "" \/ IsNone(token) \/ token = Some(AUTH_TOKEN)

\* requireAuth calls next()
RequireAuthPasses(token) == AUTH_TOKEN = "" \/ token = Some(AUTH_TOKEN)

Unauthorized == JsonResp(401, "Unauthorized", None)

\* ---------------------------------------------------------------------
\* POST /tts
\* ---------------------------------------------------------------------
\* the default voice settings 0.2, 0.9 and 0.3, in hundredths
DefaultStability == 20
DefaultSimilarityBoost == 90
DefaultStyle == 30

\* the settings object is absent, or some of its fields are
VoiceSettings(settings) ==
  LET s == IF IsNone(settings)
           THEN [stability |-> None, similarity_boost |-> None, style |-> None,
                 use_speaker_boost |-> None]
           ELSE Val(settings)
  IN [stability |-> Nullish(s.stability, DefaultStability),
      similarity_boost |-> Nullish(s.similarity_boost, DefaultSimilarityBoost),
      style |-> Nullish(s.style, DefaultStyle),
      use_speaker_boost |-> Nullish(s.use_speaker_boost, TRUE)]

\* an MP3 format of the vendor
DefaultFormatMp3 == <<"m","p","3","_","4","4","1","0","0">>

\* a faulty variant: MP3 is the default format
ResolveFormatMp3(format) ==
  IF IsNone(format) \/ Len(Val(format)) = 0 THEN DefaultFormatMp3 ELSE Val(format)

\* (req.query.format as string) || "wav_22050"
ResolveFormat(format) ==
  IF IsNone(format) \/ Len(Val(format)) = 0 THEN DefaultFormat ELSE Val(format)

IsWav(format) == StartsWith(format, WavPrefix)
Accept(format) == IF IsWav(format) THEN "audio/wav" ELSE "audio/mpeg"

\* encodeURIComponent, on the characters the formats are made of
EncodeChar(c) ==
  CASE c = " " -> <<"%","2","0">>
    [] c = "/" -> <<"%","2","F">>
    [] OTHER -> <<c>>

RECURSIVE EncodeURIComponent(_)
EncodeURIComponent(s) ==
  IF Len(s) = 0 THEN <<>> ELSE EncodeChar(s[1]) \o EncodeURIComponent(Tail(s))

TtsCall(r, text, settings, format) ==
  [vendor |-> "elevenlabs",
   voiceId |-> Val(env.ELEVENLABS_VOICE_ID),
   outputFormat |-> EncodeURIComponent(format),
   apiKey |-> Val(env.ELEVENLABS_API_KEY),
   accept |-> Accept(format),
   text |-> Val(text),
   model_id |-> "eleven_multilingual_v2",
   voice_settings |-> VoiceSettings(settings)]

AudioResp(format, bytes) ==
  [status |-> 200, kind |-> "audio", error |-> "", detail |-> None,
   explanation |-> None, contentType |-> Accept(format),
   disposition |-> IF IsWav(format) THEN "inline; filename=\"speech.wav\""
                                    ELSE "inline; filename=\"speech.mp3\"",
   xAudioFormat |-> Some(format), cacheControl |-> "", audio |-> Some(bytes), file |-> ""]

\* the handler sends one response and returns
Respond(r, response) ==
  /\ resp' = [resp EXCEPT ![r] = Append(@, response)]
  /\ pc' = [pc EXCEPT ![r] = "done"]

\* the tts handler's catch block
TtsCatch(r, err) == Respond(r, JsonResp(500, "TTS failed", Some(ErrDetail(err))))

\* requireAuth, then the handler up to `await fetch(...)`
TtsRequest(r, token, text, settings, format) ==
  /\ pc[r] = "idle"
  /\ req' = [req EXCEPT ![r] = [NoReq EXCEPT !.method = "POST", !.path = PathTts,
                                  !.token = token, !.text = text,
                                  !.settings = settings, !.format = format]]
  /\ IF ~RequireAuthPasses(token)
     THEN /\ Respond(r, Unauthorized)
          /\ UNCHANGED <<calls, timer, elapsed>>
     ELSE IF IsBlankText(text)
     THEN /\ Respond(r, JsonResp(400, "text is required", None))
          /\ UNCHANGED <<calls, timer, elapsed>>
     ELSE IF Falsy(env.ELEVENLABS_API_KEY) \/ Falsy(env.ELEVENLABS_VOICE_ID)
     THEN /\ Respond(r, JsonResp(500, "Missing ELEVENLABS_API_KEY or ELEVENLABS_VOICE_ID", None))
          /\ UNCHANGED <<calls, timer, elapsed>>
     ELSE /\ calls' = [calls EXCEPT ![r] =
                         Append(@, TtsCall(r, text, settings, ResolveFormat(format)))]
          /\ timer' = [timer EXCEPT ![r] = "armed"]
          /\ elapsed' = [elapsed EXCEPT ![r] = 0]
          /\ pc' = [pc EXCEPT ![r] = "fetch"]
          /\ UNCHANGED resp
  /\ UNCHANGED <<AUTH_TOKEN, env, vresp>>

\* a faulty variant: the relayed status is always 500
TtsFailureResp500(status, errText) == JsonResp(500, "TTS failed", Some(errText))

\* res.status(response.status).json({error: "TTS failed", detail: errText})
TtsFailureResp(status, errText) == JsonResp(status, "TTS failed", Some(errText))

\* fetch resolves with the vendor's status line and headers: the `finally`
\* callback clears the timer, then the handler awaits the body
TtsFetchResolve(r, status) ==
  /\ pc[r] = "fetch"
  /\ timer' = [timer EXCEPT ![r] = "cleared"]
  /\ vresp' = [vresp EXCEPT ![r] = [status |-> status, body |-> None]]
  /\ pc' = [pc EXCEPT ![r] = IF Ok(status) THEN "audio" ELSE "errText"]
  /\ UNCHANGED <<AUTH_TOKEN, env, req, calls, elapsed, resp>>

\* a faulty variant: a failed call is started again, once
TtsFetchRejectRetries(r) ==
  /\ pc[r] = "fetch"
  /\ IF Len(calls[r]) < 2
     THEN /\ calls' = [calls EXCEPT ![r] = Append(@, @[1])]
          /\ UNCHANGED <<timer, elapsed, pc, resp>>
     ELSE /\ timer' = [timer EXCEPT ![r] = "cleared"]
          /\ elapsed' = [elapsed EXCEPT ![r] = 0]
          /\ TtsCatch(r, NetworkError)
          /\ UNCHANGED calls
  /\ UNCHANGED <<AUTH_TOKEN, env, req, vresp>>

\* fetch rejects (a network error): `finally` clears the timer, the catch
\* block answers
TtsFetchReject(r) ==
  /\ pc[r] = "fetch"
  /\ timer' = [timer EXCEPT ![r] = "cleared"]
  /\ elapsed' = [elapsed EXCEPT ![r] = 0]
  /\ TtsCatch(r, NetworkError)
  /\ UNCHANGED <<AUTH_TOKEN, env, req, calls, vresp>>

\* the timer set by setTimeout(..., 25_000) fires: controller.abort() makes
\* the pending fetch reject with an AbortError, which the catch block answers
TimerFire(r) ==
  /\ timer[r] = "armed"
  /\ elapsed[r] >= TimeoutS
  /\ pc[r] = "fetch"
  /\ timer' = [timer EXCEPT ![r] = "fired"]
  /\ elapsed' = [elapsed EXCEPT ![r] = 0]
  /\ TtsCatch(r, AbortError)
  /\ UNCHANGED <<AUTH_TOKEN, env, req, calls, vresp>>

\* `await response.text()` resolves on a failed call: the failure is relayed
TtsErrText(r, errText) ==
  /\ pc[r] = "errText"
  /\ vresp' = [vresp EXCEPT ![r].body = Some(errText)]
  /\ elapsed' = [elapsed EXCEPT ![r] = 0]
  /\ Respond(r, TtsFailureResp(vresp[r].status, errText))
  /\ UNCHANGED <<AUTH_TOKEN, env, req, calls, timer>>

\* `await response.arrayBuffer()` resolves: the audio is sent
TtsAudio(r, bytes) ==
  /\ pc[r] = "audio"
  /\ vresp' = [vresp EXCEPT ![r].body = Some(bytes)]
  /\ elapsed' = [elapsed EXCEPT ![r] = 0]
  /\ Respond(r, AudioResp(ResolveFormat(req[r].format), bytes))
  /\ UNCHANGED <<AUTH_TOKEN, env, req, calls, timer>>

\* reading the vendor's body rejects (the connection drops)
TtsBodyReject(r) ==
  /\ pc[r] \in {"errText", "audio"}
  /\ elapsed' = [elapsed EXCEPT ![r] = 0]
  /\ TtsCatch(r, BodyError)
  /\ UNCHANGED <<AUTH_TOKEN, env, req, calls, timer, vresp>>

\* ---------------------------------------------------------------------
\* POST /explain
\* ---------------------------------------------------------------------
ExplainCall(r, imageBase64, mimeType) ==
  [vendor |-> "openai",
   authorization |-> <<"Bearer ", Val(env.OPENAI_API_KEY)>>,
   model |-> "gpt-4o",
   imageUrl |-> <<"data:", IF Falsy(mimeType) THEN "image/jpeg" ELSE Val(mimeType),
                  ";base64,", Val(imageBase64)>>,
   max_tokens |-> 1500,
   temperature |-> 70]

\* a faulty variant: the last choice is read
ExtractExplanationLast(data) ==
  LET cs == data.choices
      c == IF IsNone(cs) \/ Len(Val(cs)) = 0 THEN None ELSE Val(cs)[Len(Val(cs))]
      m == IF IsNone(c) THEN None ELSE Val(c).message
      t == IF IsNone(m) THEN None ELSE Val(m).content
  IN IF Falsy(t) THEN FallbackExplanation ELSE Val(t)

\* data.choices?.[0]?.message?.content || "No explanation generated"
ExtractExplanation(data) ==
  LET cs == data.choices
      c == IF IsNone(cs) \/ Len(Val(cs)) = 0 THEN None ELSE Val(cs)[1]
      m == IF IsNone(c) THEN None ELSE Val(c).message
      t == IF IsNone(m) THEN None ELSE Val(m).content
  IN IF Falsy(t) THEN FallbackExplanation ELSE Val(t)

\* err.error?.message || "Unknown error"
ExplainErrDetail(err) ==
  LET m == IF IsNone(err.error) THEN None ELSE Val(err.error).message
  IN IF Falsy(m) THEN "Unknown error" ELSE Val(m)

\* res.json({ explanation })
ExplainResp(explanation) ==
  [status |-> 200, kind |-> "json", error |-> "", detail |-> None,
   explanation |-> Some(explanation), contentType |-> "application/json",
   disposition |-> "", xAudioFormat |-> None, cacheControl |-> "", audio |-> None,
   file |-> ""]

\* the explain handler's catch block
ExplainCatch(r, err) == Respond(r, JsonResp(500, "Explanation failed", Some(ErrDetail(err))))

\* requireAuth, then the handler up to `await fetch(...)`
ExplainRequest(r, token, imageBase64, mimeType) ==
  /\ pc[r] = "idle"
  /\ req' = [req EXCEPT ![r] = [NoReq EXCEPT !.method = "POST", !.path = PathExplain,
                                  !.token = token, !.imageBase64 = imageBase64,
                                  !.mimeType = mimeType]]
  /\ IF ~RequireAuthPasses(token)
     THEN /\ Respond(r, Unauthorized)
          /\ UNCHANGED calls
     ELSE IF Falsy(imageBase64)
     THEN /\ Respond(r, JsonResp(400, "imageBase64 is required", None))
          /\ UNCHANGED calls
     ELSE IF Falsy(env.OPENAI_API_KEY)
     THEN /\ Respond(r, JsonResp(500, "Missing OPENAI_API_KEY", None))
          /\ UNCHANGED calls
     ELSE /\ calls' = [calls EXCEPT ![r] = Append(@, ExplainCall(r, imageBase64, mimeType))]
          /\ pc' = [pc EXCEPT ![r] = "xfetch"]
          /\ UNCHANGED resp
  /\ UNCHANGED <<AUTH_TOKEN, env, timer, elapsed, vresp>>

\* fetch resolves with the vendor's status line and headers
ExplainFetchResolve(r, status) ==
  /\ pc[r] = "xfetch"
  /\ vresp' = [vresp EXCEPT ![r] = [status |-> status, body |-> None]]
  /\ pc' = [pc EXCEPT ![r] = IF Ok(status) THEN "xjson" ELSE "xerrJson"]
  /\ UNCHANGED <<AUTH_TOKEN, env, req, calls, timer, elapsed, resp>>

\* fetch rejects (a network error)
ExplainFetchReject(r) ==
  /\ pc[r] = "xfetch"
  /\ elapsed' = [elapsed EXCEPT ![r] = 0]
  /\ ExplainCatch(r, NetworkError)
  /\ UNCHANGED <<AUTH_TOKEN, env, req, calls, timer, vresp>>

\* `await response.json().catch(() => ({}))` on a failed call: body is the
\* parsed error object, or undefined when reading or parsing it failed
ExplainErrJson(r, body) ==
  /\ pc[r] = "xerrJson"
  /\ vresp' = [vresp EXCEPT ![r].body = body]
  /\ elapsed' = [elapsed EXCEPT ![r] = 0]
  /\ LET err == IF IsNone(body) THEN [error |-> None] ELSE Val(body)
     IN Respond(r, JsonResp(vresp[r].status, "OpenAI API failed", Some(ExplainErrDetail(err))))
  /\ UNCHANGED <<AUTH_TOKEN, env, req, calls, timer>>

\* `await response.json()` resolves on a successful call; data is undefined
\* for the JSON value null, where `data.choices` throws a TypeError
ExplainJson(r, data) ==
  /\ pc[r] = "xjson"
  /\ vresp' = [vresp EXCEPT ![r].body = Some(data)]
  /\ elapsed' = [elapsed EXCEPT ![r] = 0]
  /\ IF IsNone(data)
     THEN ExplainCatch(r, [name |-> "TypeError",
                           message |-> "Cannot read properties of null (reading 'choices')"])
     ELSE Respond(r, ExplainResp(ExtractExplanation(Val(data))))
  /\ UNCHANGED <<AUTH_TOKEN, env, req, calls, timer>>

\* `await response.json()` rejects on a successful call
ExplainJsonReject(r) ==
  /\ pc[r] = "xjson"
  /\ elapsed' = [elapsed EXCEPT ![r] = 0]
  /\ ExplainCatch(r, SyntaxError)
  /\ UNCHANGED <<AUTH_TOKEN, env, req, calls, timer, vresp>>

\* ---------------------------------------------------------------------
\* Cache-control middleware, express.static and the SPA fallback
\* ---------------------------------------------------------------------
PathRoot == <<"/">>
PathIndex == <<"/","i","n","d","e","x",".","h","t","m","l">>
PathMainJs == <<"/","m","a","i","n",".","j","s">>
PathStylesCss == <<"/","s","t","y","l","e","s",".","c","s","s">>
PathFavicon == <<"/","f","a","v","i","c","o","n",".","i","c","o">>
PathDashboard == <<"/","d","a","s","h","b","o","a","r","d","/","4","2">>
PathAboutHtml == <<"/","a","b","o","u","t",".","h","t","m","l">>
PathTtsDemo == <<"/","t","t","s","-","d","e","m","o">>
PathExplainer == <<"/","e","x","p","l","a","i","n","e","r">>

\* the files of the Angular build under webRoot
WebRootFiles == {PathIndex, PathMainJs, PathStylesCss, PathFavicon}

\* the header the middleware sets from req.path
CachePolicy(path) ==
  IF EndsWith(path, <<".","h","t","m","l">>) THEN NoCachePolicy
  ELSE IF EndsWith(path, <<".","j","s">>) \/ EndsWith(path, <<".","c","s","s">>) THEN HourPolicy
  ELSE YearPolicy

\* express.static(webRoot): the file it serves for a path, if any; the
\* root directory is served by its index.html
StaticFile(path) ==
  IF path \in WebRootFiles THEN Some(path)
  ELSE IF path = PathRoot /\ PathIndex \in WebRootFiles THEN Some(PathIndex)
  ELSE None

\* a faulty variant: only the two API paths themselves are excluded
FallbackMatchesExact(path) == path \notin {PathTts, PathExplain}

\* the route pattern /^(?!\/tts|\/explain).*$/
FallbackMatches(path) == ~(StartsWith(path, PathTts) \/ StartsWith(path, PathExplain))

FileResp(file, cacheControl) ==
  [status |-> 200, kind |-> "file", error |-> "", detail |-> None,
   explanation |-> None, contentType |-> "", disposition |-> "",
   xAudioFormat |-> None, cacheControl |-> cacheControl, audio |-> None, file |-> file]

\* no route answered: Express's default 404
NotFoundResp(cacheControl) ==
  [status |-> 404, kind |-> "none", error |-> "", detail |-> None,
   explanation |-> None, contentType |-> "text/html", disposition |-> "",
   xAudioFormat |-> None, cacheControl |-> cacheControl, audio |-> None, file |-> <<>>]

\* a request that neither API route takes: the cache-control middleware,
\* then express.static, then the SPA fallback, then the default 404
OtherRequest(r, method, path) ==
  /\ pc[r] = "idle"
  /\ ~(method = "POST" /\ path \in {PathTts, PathExplain})
  /\ req' = [req EXCEPT ![r] = [NoReq EXCEPT !.method = method, !.path = path]]
  /\ LET cacheControl == CachePolicy(path)
         file == IF method = "GET" THEN StaticFile(path) ELSE None
     IN IF ~IsNone(file)
        THEN Respond(r, FileResp(Val(file), cacheControl))
        ELSE IF method = "GET" /\ FallbackMatches(path)
        THEN Respond(r, FileResp(PathIndex, cacheControl))
        ELSE Respond(r, NotFoundResp(cacheControl))
  /\ UNCHANGED <<AUTH_TOKEN, env, calls, timer, elapsed, vresp>>

\* ---------------------------------------------------------------------
\* Time
\* ---------------------------------------------------------------------
Min(a, b) == IF a < b THEN a ELSE b

Awaiting == {"fetch", "errText", "audio", "xfetch", "xerrJson", "xjson"}

\* time passes for a request that awaits its vendor; an armed timer fires
\* no later than its delay
Tick(r) ==
  /\ pc[r] \in Awaiting
  /\ elapsed[r] < MaxElapsedS
  /\ timer[r] = "armed" => elapsed[r] < TimeoutS
  /\ elapsed' = [elapsed EXCEPT ![r] =
                   IF timer[r] = "armed" THEN Min(@ + TickS, TimeoutS)
                                         ELSE Min(@ + TickS, MaxElapsedS)]
  /\ UNCHANGED <<AUTH_TOKEN, env, pc, req, calls, timer, vresp, resp>>

\* ---------------------------------------------------------------------
\* What callers and vendors send
\* ---------------------------------------------------------------------
\* the x-auth-token header: missing or "secret", which equals one configured
\* AUTH_TOKEN and differs from the other
Tokens == {None, Some("secret")}
CustomSettings ==
  Some([stability |-> Some(50), similarity_boost |-> None, style |-> None,
        use_speaker_boost |-> Some(FALSE)])
\* JSON bodies of POST /tts: text missing, empty, blank and present, with and
\* without settings
TtsBodies ==
  {[text |-> None, settings |-> None],
   [text |-> Some(<<>>), settings |-> CustomSettings],
   [text |-> Some(<<" ","\t","\n">>), settings |-> None],
   [text |-> Some(<<" ">>), settings |-> CustomSettings],
   [text |-> Some(<<" ","h","i"," ">>), settings |-> CustomSettings]}
Formats ==
  {None, Some(<<>>), Some(<<"w","a","v","_","8","0","0","0">>), Some(DefaultFormatMp3),
   Some(<<"w","a","v">>)}
\* JSON bodies of POST /explain
ExplainBodies ==
  {[imageBase64 |-> None, mimeType |-> Some("image/png")],
   [imageBase64 |-> Some(""), mimeType |-> None],
   [imageBase64 |-> Some("iVBORw0KGgo="), mimeType |-> None],
   [imageBase64 |-> Some("iVBORw0KGgo="), mimeType |-> Some("image/png")]}
Methods == {"GET", "POST"}
Paths ==
  {PathRoot, PathIndex, PathMainJs, PathStylesCss, PathFavicon, PathDashboard,
   PathAboutHtml, PathTts, PathExplain, PathTtsDemo, PathExplainer}

VendorStatuses == {200, 401, 500}
ErrTexts == {"", "{\"detail\":{\"status\":\"quota_exceeded\"}}"}
AudioBytes == {"RIFF"}

Message(content) == Some([message |-> Some([content |-> content])])
ErrBodies ==
  {None, Some([error |-> None]),
   Some([error |-> Some([message |-> Some("Incorrect API key provided")])])}
Completions ==
  {None,
   Some([choices |-> None]),
   Some([choices |-> Some(<<>>)]),
   Some([choices |-> Some(<<Some([message |-> None])>>)]),
   Some([choices |-> Some(<<Message(Some(""))>>)]),
   Some([choices |-> Some(<<Message(Some("lecture A"))>>)]),
   Some([choices |-> Some(<<Message(Some("lecture A")), Message(Some("lecture B"))>>)]),
   Some([choices |-> Some(<<Message(None), Message(Some("lecture B"))>>)])}

EnvValues == {None, Some(""), Some("secret"), Some("hunter2")}
Credentials == [ELEVENLABS_API_KEY : {None, Some("xi-key")},
                ELEVENLABS_VOICE_ID : {None, Some("voice-1")},
                OPENAI_API_KEY : {None, Some("sk-key")}]

\* ---------------------------------------------------------------------
\* Specification
\* ---------------------------------------------------------------------
Init ==
  /\ \E e \in EnvValues : AUTH_TOKEN = IF Falsy(e) THEN "" ELSE Val(e)
  /\ env \in Credentials
  /\ pc = [r \in Reqs |-> "idle"]
  /\ req = [r \in Reqs |-> NoReq]
  /\ calls = [r \in Reqs |-> <<>>]
  /\ timer = [r \in Reqs |-> "none"]
  /\ elapsed = [r \in Reqs |-> 0]
  /\ vresp = [r \in Reqs |-> NoVendorResp]
  /\ resp = [r \in Reqs |-> <<>>]

Next ==
  \E r \in Reqs :
    \/ \E token \in Tokens, body \in TtsBodies, format \in Formats :
         TtsRequest(r, token, body.text, body.settings, format)
    \/ \E status \in VendorStatuses : TtsFetchResolve(r, status)
    \/ TtsFetchReject(r)
    \/ TimerFire(r)
    \/ \E errText \in ErrTexts : TtsErrText(r, errText)
    \/ \E bytes \in AudioBytes : TtsAudio(r, bytes)
    \/ TtsBodyReject(r)
    \/ \E token \in Tokens, body \in ExplainBodies :
         ExplainRequest(r, token, body.imageBase64, body.mimeType)
    \/ \E status \in VendorStatuses : ExplainFetchResolve(r, status)
    \/ ExplainFetchReject(r)
    \/ \E body \in ErrBodies : ExplainErrJson(r, body)
    \/ \E data \in Completions : ExplainJson(r, data)
    \/ ExplainJsonReject(r)
    \/ \E method \in Methods, path \in Paths : OtherRequest(r, method, path)
    \/ Tick(r)

Spec == Init /\ [][Next]_vars

\* ---------------------------------------------------------------------
\* Properties
\* ---------------------------------------------------------------------
IsTts(r) == req[r].method = "POST" /\ req[r].path = PathTts
IsExplain(r) == req[r].method = "POST" /\ req[r].path = PathExplain
Done(r) == pc[r] = "done"

HasPrefix(s, p) == Len(s) >= Len(p) /\ \A i \in 1..Len(p) : s[i] = p[i]
HasSuffix(s, p) == Len(s) >= Len(p) /\ \A i \in 1..Len(p) : s[Len(s) - Len(p) + i] = p[i]

\* the header is missing or differs from a configured, non-empty AUTH_TOKEN
Denied(r) == AUTH_TOKEN # "" /\ (IsNone(req[r].token) \/ Val(req[r].token) # AUTH_TOKEN)

\* text is missing, empty or made of whitespace only
BlankText(text) ==
  IsNone(text) \/ \A i \in 1..Len(Val(text)) : Val(text)[i] \in {" ", "\t", "\n"}

\* the body and the credentials of the request let it reach its vendor
ValidForVendor(r) ==
  \/ /\ IsTts(r)
     /\ ~BlankText(req[r].text)
     /\ env.ELEVENLABS_API_KEY # None
     /\ env.ELEVENLABS_VOICE_ID # None
  \/ /\ IsExplain(r)
     /\ req[r].imageBase64 \notin {None, Some("")}
     /\ env.OPENAI_API_KEY # None

IsUnauthorized(response) ==
  response.status = 401 /\ response.kind = "json" /\ response.error = "Unauthorized"

PassedGate(r) == AUTH_TOKEN = "" \/ req[r].token = Some(AUTH_TOKEN)

\* C2: a POST /tts request that passes the auth gate with text missing, empty
\* or whitespace-only is answered 400, whatever its settings and format and
\* whether or not the ElevenLabs credentials are configured, and starts no
\* vendor call.
C2_BlankTextIs400 ==
  \A r \in Reqs : (IsTts(r) /\ PassedGate(r) /\ BlankText(req[r].text)) =>
    /\ Done(r)
    /\ Len(resp[r]) = 1
    /\ resp[r][1].status = 400
    /\ resp[r][1].error = "text is required"
    /\ calls[r] = <<>>

\* C2's case: whitespace-only text with settings and a format, and no
\* ElevenLabs credentials configured
C2_Witness ==
  \E r \in Reqs :
    /\ IsTts(r) /\ PassedGate(r) /\ Done(r)
    /\ ~IsNone(req[r].text) /\ Len(Val(req[r].text)) > 0 /\ BlankText(req[r].text)
    /\ ~IsNone(req[r].settings) /\ ~IsNone(req[r].format)
    /\ env.ELEVENLABS_API_KEY = None
    /\ resp[r][1].status = 400

HasText(data) ==
  /\ ~IsNone(data.choices)
  /\ Len(Val(data.choices)) >= 1
  /\ ~IsNone(Val(data.choices)[1])
  /\ ~IsNone(Val(Val(data.choices)[1]).message)
  /\ ~IsNone(Val(Val(Val(data.choices)[1]).message).content)
  /\ Val(Val(Val(Val(data.choices)[1]).message).content) # ""

FirstText(data) == Val(Val(Val(Val(data.choices)[1]).message).content)

\* C6: for a POST /explain request whose vendor call succeeded with a JSON
\* object, the response is 200 and its explanation is the message text of the
\* first choice when there is one, and "No explanation generated" otherwise.
C6_Explanation ==
  \A r \in Reqs :
    (IsExplain(r) /\ Ok(vresp[r].status) /\ ~IsNone(vresp[r].body) /\ ~IsNone(Val(vresp[r].body))) =>
      LET data == Val(Val(vresp[r].body))
      IN /\ Done(r)
         /\ Len(resp[r]) = 1
         /\ resp[r][1].status = 200
         /\ resp[r][1].explanation =
              Some(IF HasText(data) THEN FirstText(data) ELSE "No explanation generated")

\* C6's case: one request got the first of two choices, another the fallback
\* for a response without choices
C6_Witness ==
  \E r, s \in Reqs :
    /\ IsExplain(r) /\ Done(r) /\ Ok(vresp[r].status)
    /\ vresp[r].body = Some(Some([choices |->
         Some(<<Message(Some("lecture A")), Message(Some("lecture B"))>>)]))
    /\ resp[r][1].explanation = Some("lecture A")
    /\ IsExplain(s) /\ Done(s) /\ Ok(vresp[s].status)
    /\ vresp[s].body = Some(Some([choices |-> Some(<<>>)]))
    /\ resp[s][1].explanation = Some("No explanation generated")

\* C7: a successful POST /tts answers with the type its format selects: with
\* format unset (or empty) the format is wav_22050, Content-Type audio/wav and
\* filename speech.wav; with a format starting with "wav_" audio/wav and
\* speech.wav; with any other format audio/mpeg and speech.mp3; the Accept
\* header sent to the vendor is the Content-Type returned.
C7_FormatSelectsType ==
  \A r \in Reqs : (IsTts(r) /\ Ok(vresp[r].status) /\ ~IsNone(vresp[r].body)) =>
    LET f == req[r].format
        unset == IsNone(f) \/ Len(Val(f)) = 0
        wav == unset \/ HasPrefix(Val(f), <<"w","a","v","_">>)
    IN /\ Done(r)
       /\ Len(resp[r]) = 1
       /\ resp[r][1].status = 200
       /\ resp[r][1].kind = "audio"
       /\ resp[r][1].audio = vresp[r].body
       /\ resp[r][1].xAudioFormat =
            Some(IF unset THEN <<"w","a","v","_","2","2","0","5","0">> ELSE Val(f))
       /\ resp[r][1].contentType = IF wav THEN "audio/wav" ELSE "audio/mpeg"
       /\ resp[r][1].disposition =
            IF wav THEN "inline; filename=\"speech.wav\"" ELSE "inline; filename=\"speech.mp3\""
       /\ calls[r][1].accept = resp[r][1].contentType

\* C7's case: one request without a format got WAV, another with an MP3
\* format got MP3
C7_Witness ==
  \E r, s \in Reqs :
    /\ IsTts(r) /\ Done(r) /\ IsNone(req[r].format)
    /\ resp[r][1].kind = "audio" /\ resp[r][1].contentType = "audio/wav"
    /\ IsTts(s) /\ Done(s) /\ req[s].format = Some(<<"m","p","3","_","4","4","1","0","0">>)
    /\ resp[s][1].kind = "audio" /\ resp[s][1].contentType = "audio/mpeg"

\* everything the program holds for one request
Context(r) == <<pc[r], req[r], calls[r], timer[r], elapsed[r], vresp[r], resp[r]>>

\* C8: there is no retry: a POST /tts or POST /explain request starts at most
\* one vendor call and gets at most one response; a request whose handler has
\* finished (a relayed vendor failure, an abort and a thrown error included)
\* has exactly one response, and no further call or response follows; a
\* step of one request changes nothing of another request.
C8_NoRetry ==
  /\ [](\A r \in Reqs :
          /\ Len(calls[r]) <= 1
          /\ Len(resp[r]) <= 1
          /\ Done(r) <=> Len(resp[r]) = 1)
  /\ [][\A r \in Reqs :
          /\ Done(r) => Done(r)' /\ resp'[r] = resp[r] /\ calls'[r] = calls[r] /\ req'[r] = req[r]
          /\ \A s \in Reqs \ {r} : Context(r)' # Context(r) => Context(s)' = Context(s)]_vars

\* C8's case: a request failed by the abort of its vendor call and was
\* answered once, while another request is still waiting for its own vendor
C8_Witness ==
  \E r, s \in Reqs :
    /\ IsTts(r) /\ Done(r) /\ timer[r] = "fired"
    /\ Len(calls[r]) = 1 /\ Len(resp[r]) = 1
    /\ resp[r][1].status = 500 /\ resp[r][1].error = "TTS failed"
    /\ IsExplain(s) /\ pc[s] = "xjson" /\ Len(calls[s]) = 1 /\ Len(resp[s]) = 0

\* C3: a POST /tts vendor call that has not completed (headers and body)
\* within 25 seconds is aborted: no tts handler waits for its vendor longer.
C3_AbortedWithin25s ==
  \A r \in Reqs : (IsTts(r) /\ pc[r] \in {"fetch", "errText", "audio"}) => elapsed[r] <= TimeoutS

\* C9: the bounded timeout covers the /explain vendor call too: no explain
\* handler waits for its vendor longer than the timeout.
C9_ExplainBounded ==
  \A r \in Reqs :
    (IsExplain(r) /\ pc[r] \in {"xfetch", "xerrJson", "xjson"}) => elapsed[r] <= TimeoutS

ApiPrefixed(path) ==
  \/ HasPrefix(path, <<"/","t","t","s">>)
  \/ HasPrefix(path, <<"/","e","x","p","l","a","i","n">>)

C10_PolicyByFileServed ==
  \A r \in Reqs : \A i \in 1..Len(resp[r]) :
    /\ (IsTts(r) \/ IsExplain(r)) => resp[r][i].cacheControl = ""
    /\ resp[r][i].kind = "file" =>
         resp[r][i].cacheControl =
           IF HasSuffix(resp[r][i].file, <<".","h","t","m","l">>)
           THEN "no-cache, must-revalidate, max-age=0"
           ELSE IF \/ HasSuffix(resp[r][i].file, <<".","j","s">>)
                   \/ HasSuffix(resp[r][i].file, <<".","c","s","s">>)
           THEN "public, max-age=3600, must-revalidate"
           ELSE "public, max-age=31536000, immutable"

====
